---- MODULE Spec2Model ----
(***************************************************************************)
(* Model of project/project/model/detect.py: the frame loop of run() with  *)
(* its enter/exit anchors and empty-frame counter, the dispatch threads    *)
(* running send_request(), remove_plural(), and the label resolver         *)
(* productDetection() with findMaxTwoClass().                              *)
(*                                                                         *)
(* Conventions.                                                            *)
(*  - Normalised coordinates are integers in tenths (x = 3 is 0.3), so     *)
(*    the entry zone [0.1, 0.9] is 1..9 and the threshold 0.6 is 6.        *)
(*  - Confidences are integers in hundredths, the precision that the       *)
(*    label format '{conf:.2f}' keeps.                                     *)
(*  - Strings are TLA+ strings; slicing is SubSeq, concatenation is \o.    *)
(*  - One frame per loop iteration (batch size 1, as for a single source). *)
(*  - Default flags: nosave=False, so labels are appended (save_img).      *)
(***************************************************************************)
EXTENDS Integers, Sequences, FiniteSets, TLC

VARIABLES
    source,               \* run(source=...): how the dataset is opened
    enter_coordinates,    \* None or <<x, y>>
    exit_coordinates,     \* None or <<x, y>>
    noObjectCount,        \* empty-frame counter
    predictedLabels_se,   \* label strings appended for every drawn box
    threads,              \* dispatch threads in spawn order
    crossings,            \* history: number of crossings fired so far
    event,                \* history: what the last frame ended with
    maxName_se,           \* winner computed by productDetection ("" = none)
    emptyRun,             \* history: frames without detections in a row while tracking
    emptySince            \* history: frames without detections since the enter anchor was set

vars == <<source, enter_coordinates, exit_coordinates, noObjectCount,
          predictedLabels_se, threads, crossings, event, maxName_se,
          emptyRun, emptySince>>

(***************************************************************************)
(* Bounds of the model.                                                    *)
(***************************************************************************)
MaxDet == 2        \* detections per frame
MaxLabels == 4     \* labels buffered over a run
MaxEmpty == 12     \* cap of noObjectCount
MaxBuf == 6        \* length of a resolver input buffer

(***************************************************************************)
(* Program constants.                                                      *)
(***************************************************************************)
None == <<>>
ZoneLow == 1
ZoneHigh == 9
Threshold == 6
DebounceLimit == 10
MinConfidence == 50
CountMargin == 3
cashier_id == 0

Classes == {0, 1, 2}
names == [c \in Classes |->
            CASE c = 0 -> "Capri-Sun Safari Fruits"
              [] c = 1 -> "Rexona Roll On"
              [] c = 2 -> "Flormar HC28 Urban Escapes"]

\* the allow-list of remove_plural, its first two names written in ASCII
items_to_check == {"Ulker Salty Pretzels", "Dogadan Sage 20s", "Capri-Sun Safari Fruits"}

Digits == {"0", "1", "2", "3", "4", "5", "6", "7", "8", "9"}

Abs(n) == IF n < 0 THEN -n ELSE n

\* mutant: the detections taken in the order the detector gives them
ReverseNot(seq) == seq

RECURSIVE Reverse(_)
Reverse(seq) == IF seq = <<>> THEN <<>> ELSE Append(Reverse(Tail(seq)), Head(seq))

Char(str, i) == SubSeq(str, i, i)

At(str, i) == IF 1 <= i /\ i <= Len(str) THEN Char(str, i) ELSE ""

EndsWith(str, suffix) ==
    /\ Len(str) >= Len(suffix)
    /\ SubSeq(str, Len(str) - Len(suffix) + 1, Len(str)) = suffix

\* str(n) for a natural number
RECURSIVE Str(_)
Str(n) ==
    LET digit(k) == <<"0", "1", "2", "3", "4", "5", "6", "7", "8", "9">>[k + 1]
    IN  IF n < 10 THEN digit(n) ELSE Str(n \div 10) \o digit(n % 10)

DigitVal(ch) == CHOOSE k \in 0..9 : Str(k) = ch

\* f'{conf:.2f}' of a confidence given in hundredths
Format2f(conf) == Str(conf \div 100) \o "." \o Str((conf % 100) \div 10) \o Str(conf % 10)

\* float(text) of a 'd.dd' text, in hundredths
ParseFloat(text) ==
    DigitVal(Char(text, 1)) * 100 + DigitVal(Char(text, 3)) * 10 + DigitVal(Char(text, 4))

(***************************************************************************)
(* The frame loop of run(): tracker state and detection loop.              *)
(***************************************************************************)
\* mutant: the lower edge of the zone taken as 0.0
InZoneFromZero(x) == 0 <= x /\ x <= ZoneHigh

InZone(x) == ZoneLow <= x /\ x <= ZoneHigh

\* mutant: every detection in the zone becomes the enter anchor
ObserveMovesEnter(st, d) ==
    IF InZone(d.x)
    THEN [st EXCEPT !.enter = <<d.x, d.y>>, !.count = 0]
    ELSE [st EXCEPT !.exit = <<d.x, d.y>>]

\* mutant: the enter anchor set without putting noObjectCount back to 0
ObserveKeepsCount(st, d) ==
    IF st.enter = None /\ InZone(d.x)
    THEN [st EXCEPT !.enter = <<d.x, d.y>>]
    ELSE [st EXCEPT !.exit = <<d.x, d.y>>]

\* mutant: every detection puts noObjectCount back to 0
ObserveResetsCount(st, d) ==
    IF st.enter = None /\ InZone(d.x)
    THEN [st EXCEPT !.enter = <<d.x, d.y>>, !.count = 0]
    ELSE [st EXCEPT !.exit = <<d.x, d.y>>, !.count = 0]

\* one iteration of 'for *xyxy, conf, cls in reversed(det)'
Observe(st, d) ==
    IF st.enter = None /\ InZone(d.x)
    THEN [st EXCEPT !.enter = <<d.x, d.y>>, !.count = 0]
    ELSE [st EXCEPT !.exit = <<d.x, d.y>>]

\* mutant: the 'break' of line 198 in force: the loop ends at the first exit assignment
RECURSIVE DetLoopBreaks(_, _)
DetLoopBreaks(st, rows) ==
    IF rows = <<>> THEN st
    ELSE IF st.enter = None /\ InZone(Head(rows).x)
         THEN DetLoopBreaks(Observe(st, Head(rows)), Tail(rows))
         ELSE Observe(st, Head(rows))

RECURSIVE DetLoop(_, _)
DetLoop(st, rows) ==
    IF rows = <<>> THEN st ELSE DetLoop(Observe(st, Head(rows)), Tail(rows))

\* mutant: the displacement compared with > instead of >=
CrossedStrict(enter, exit) ==
    /\ enter # None
    /\ exit # None
    /\ Abs(exit[1] - enter[1]) > Threshold

Crossed(enter, exit) ==
    /\ enter # None
    /\ exit # None
    /\ Abs(exit[1] - enter[1]) >= Threshold

\* mutant: the counter put back to 0 at the limit with or without an enter anchor
EmptyFrameAlways(st) ==
    LET n == st.count + 1
    IN  IF n >= DebounceLimit
        THEN [enter |-> None, exit |-> None, count |-> 0]
        ELSE [st EXCEPT !.count = n]

\* mutant: the debounce limit compared with > instead of >=
EmptyFrameStrict(st) ==
    LET n == st.count + 1
    IN  IF n > DebounceLimit /\ st.enter # None
        THEN [enter |-> None, exit |-> None, count |-> 0]
        ELSE [st EXCEPT !.count = n]

\* mutant: the debounce reset forgets exit_coordinates
EmptyFrameKeepExit(st) ==
    LET n == st.count + 1
    IN  IF n >= DebounceLimit /\ st.enter # None
        THEN [enter |-> None, exit |-> st.exit, count |-> 0]
        ELSE [st EXCEPT !.count = n]

\* 'if not len(det)': the empty-frame counter and the debounce reset
EmptyFrame(st) ==
    LET n == st.count + 1
    IN  IF n >= DebounceLimit /\ st.enter # None
        THEN [enter |-> None, exit |-> None, count |-> 0]
        ELSE [st EXCEPT !.count = n]

(***************************************************************************)
(* The print string s of a frame and the labels drawn on it.               *)
(***************************************************************************)
IsNumeric(str) == Len(str) > 0 /\ \A i \in 1..Len(str) : Char(str, i) \in Digits

webcam == IsNumeric(source)

\* the s yielded by the dataset with each frame: '' from LoadStreams (webcam),
\* 'image i/n path: ' from LoadImages (files); run() only appends to it
DatasetS == IF webcam THEN "" ELSE "image 1/2 data/images/bus.jpg: "

ImShape == "384x512 "

ClassCount(det, c) == Cardinality({i \in 1..Len(det) : det[i].cls = c})

\* 'for c in det[:, 5].unique()': classes in ascending order
RECURSIVE ClassSummary(_, _)
ClassSummary(det, c) ==
    IF c \notin Classes THEN ""
    ELSE LET n == ClassCount(det, c)
             part == IF n = 0 THEN ""
                     ELSE Str(n) \o " " \o names[c] \o (IF n > 1 THEN "s" ELSE "") \o ", "
         IN  part \o ClassSummary(det, c + 1)

FrameSummary(det) ==
    LET s1 == IF webcam THEN DatasetS \o "0: " ELSE DatasetS
        s2 == s1 \o ImShape
    IN  IF Len(det) > 0 THEN s2 \o ClassSummary(det, 0) ELSE s2

\* f'{names[c]} {conf:.2f}'
Label(c, conf) == names[c] \o " " \o Format2f(conf)

\* labels appended by the second 'for ... in reversed(det)' loop
FrameLabels(det) == [i \in 1..Len(det) |-> Label(Reverse(det)[i].cls, Reverse(det)[i].conf)]

\* mutant: a pool of one: no thread is started while another has not ended
SpawnIfIdle(ths, s) ==
    IF \E i \in 1..Len(ths) : ths[i].pc # "done"
    THEN ths
    ELSE Append(ths, [pc |-> "start", s |-> s, posts |-> <<>>, log |-> ""])

\* mutant: the thread is created and never started
SpawnNothing(ths, s) == ths

\* mutant: thread.join() after thread.start(): the request is over when the loop goes on
SpawnAndJoin(ths, s) == Append(ths, [pc |-> "done", s |-> s, posts |-> <<>>, log |-> "joined"])

\* threading.Thread(target=send_request, args=(url, headers, cashier_id, s)).start()
Spawn(ths, s) == Append(ths, [pc |-> "start", s |-> s, posts |-> <<>>, log |-> ""])

(***************************************************************************)
(* send_request(): the regular expression, remove_plural and the POST.     *)
(***************************************************************************)
\* index after the longest run of digits that starts at i
RECURSIVE DigitsEnd(_, _)
DigitsEnd(str, i) == IF At(str, i) \in Digits THEN DigitsEnd(str, i + 1) ELSE i

\* index of the first "," at or after i, 0 when there is none
RECURSIVE FirstComma(_, _)
FirstComma(str, i) ==
    IF i > Len(str) THEN 0
    ELSE IF Char(str, i) = "," THEN i ELSE FirstComma(str, i + 1)

\* the pattern \d:\s\d+x\d+\s\d+\s(.+?)(?=,) tried at position i
MatchAt(str, i) ==
    LET j == DigitsEnd(str, i + 3)
        k == DigitsEnd(str, j + 1)
        m == DigitsEnd(str, k + 1)
        c == FirstComma(str, m + 2)
        ok == /\ At(str, i) \in Digits
              /\ At(str, i + 1) = ":"
              /\ At(str, i + 2) = " "
              /\ j > i + 3
              /\ At(str, j) = "x"
              /\ k > j + 1
              /\ At(str, k) = " "
              /\ m > k + 1
              /\ At(str, m) = " "
              /\ c > 0
    IN  [found |-> ok, group |-> IF ok THEN SubSeq(str, m + 1, c - 1) ELSE ""]

\* re.search(pattern, s): the leftmost match
re_search(str) ==
    LET hits == {i \in 1..Len(str) : MatchAt(str, i).found}
    IN  IF hits = {} THEN [found |-> FALSE, group |-> ""]
        ELSE MatchAt(str, CHOOSE i \in hits : \A h \in hits : i <= h)

\* the value of the local 'word' when remove_plural ends (the function returns None)
remove_plural(word) ==
    IF word \in items_to_check
    THEN IF EndsWith(word, "ss") THEN SubSeq(word, 1, Len(word) - 1) ELSE word
    ELSE SubSeq(word, 1, Len(word) - 1)

\* the JSON body built by send_request: remove_plural(result) is called for
\* its effect only, and a str is immutable, so 'result' is sent as matched
RequestData(result) == [cashierId |-> cashier_id, itemName |-> result]

Outcomes == {"200", "500", "exception"}

\* lines 331-345: match, build the body, issue the POST (or return without one)
SendRequest(i) ==
    /\ i \in 1..Len(threads)
    /\ threads[i].pc = "start"
    /\ LET match == re_search(threads[i].s)
       IN  IF match.found
           THEN threads' = [threads EXCEPT
                               ![i].pc = "posted",
                               ![i].posts = Append(@, RequestData(match.group))]
           ELSE threads' = [threads EXCEPT ![i].pc = "done", ![i].log = "no match"]
    /\ UNCHANGED <<source, enter_coordinates, exit_coordinates, noObjectCount,
                   predictedLabels_se, crossings, event, maxName_se,
                   emptyRun, emptySince>>

\* mutant: a request that failed puts the tracking session back to empty
ResponseResets(i, outcome) ==
    /\ i \in 1..Len(threads)
    /\ threads[i].pc = "posted"
    /\ threads' = [threads EXCEPT
                       ![i].pc = "done",
                       ![i].log = CASE outcome = "200" -> "success"
                                    [] outcome = "exception" -> "exception"
                                    [] OTHER -> "status"]
    /\ enter_coordinates' = IF outcome = "200" THEN enter_coordinates ELSE None
    /\ exit_coordinates' = IF outcome = "200" THEN exit_coordinates ELSE None
    /\ noObjectCount' = IF outcome = "200" THEN noObjectCount ELSE 0
    /\ UNCHANGED <<source, predictedLabels_se, crossings, event, maxName_se,
                   emptyRun, emptySince>>

\* lines 345-349: the response (or the exception of requests.post) ends the thread
Response(i, outcome) ==
    /\ i \in 1..Len(threads)
    /\ threads[i].pc = "posted"
    /\ threads' = [threads EXCEPT
                       ![i].pc = "done",
                       ![i].log = CASE outcome = "200" -> "success"
                                    [] outcome = "exception" -> "exception"
                                    [] OTHER -> "status"]
    /\ UNCHANGED <<source, enter_coordinates, exit_coordinates, noObjectCount,
                   predictedLabels_se, crossings, event, maxName_se,
                   emptyRun, emptySince>>

(***************************************************************************)
(* One iteration of 'for path, im, im0s, vid_cap, s in dataset'.           *)
(***************************************************************************)
\* mutant: a crossing also puts noObjectCount back to 0
FrameResetsCount(det) ==
    /\ LET s   == FrameSummary(det)
           st0 == [enter |-> enter_coordinates, exit |-> exit_coordinates,
                   count |-> noObjectCount]
           st1 == IF Len(det) > 0 THEN DetLoop(st0, Reverse(det)) ELSE st0
           fire == Len(det) > 0 /\ Crossed(st1.enter, st1.exit)
           st2 == IF fire THEN [enter |-> None, exit |-> None, count |-> 0] ELSE st1
           st3 == IF Len(det) = 0 THEN EmptyFrame(st2) ELSE st2
       IN  /\ enter_coordinates' = st3.enter
           /\ exit_coordinates' = st3.exit
           /\ noObjectCount' = st3.count
           /\ threads' = IF fire THEN Spawn(threads, s) ELSE threads
           /\ crossings' = IF fire THEN crossings + 1 ELSE crossings
           /\ predictedLabels_se' = predictedLabels_se \o FrameLabels(det)
           /\ event' = IF fire THEN "crossing"
                       ELSE IF Len(det) = 0 /\ st3.count = 0 THEN "debounce"
                       ELSE "none"
    /\ UNCHANGED <<source, maxName_se>>

Frame(det) ==
    /\ LET s   == FrameSummary(det)
           st0 == [enter |-> enter_coordinates, exit |-> exit_coordinates,
                   count |-> noObjectCount]
           st1 == IF Len(det) > 0 THEN DetLoop(st0, Reverse(det)) ELSE st0
           fire == Len(det) > 0 /\ Crossed(st1.enter, st1.exit)
           st2 == IF fire THEN [st1 EXCEPT !.enter = None, !.exit = None] ELSE st1
           st3 == IF Len(det) = 0 THEN EmptyFrame(st2) ELSE st2
       IN  /\ enter_coordinates' = st3.enter
           /\ exit_coordinates' = st3.exit
           /\ noObjectCount' = st3.count
           /\ threads' = IF fire THEN Spawn(threads, s) ELSE threads
           /\ crossings' = IF fire THEN crossings + 1 ELSE crossings
           /\ predictedLabels_se' = predictedLabels_se \o FrameLabels(det)
           /\ event' = IF fire THEN "crossing"
                       ELSE IF Len(det) = 0 /\ st3.count = 0 THEN "debounce"
                       ELSE "none"
    /\ UNCHANGED <<source, maxName_se>>

(***************************************************************************)
(* productDetection() and its helpers.  Sequences are indexed from 1, so   *)
(* Python's index k is k + 1 here and findProductIndex's -1 is 0.          *)
(***************************************************************************)
\* position of the last " " of a label, 0 when there is none
RECURSIVE LastSpace(_, _)
LastSpace(item, i) ==
    IF i = 0 THEN 0 ELSE IF Char(item, i) = " " THEN i ELSE LastSpace(item, i - 1)

\* ' '.join(item.split(' ')[:-1])
ProductOf(item) ==
    LET k == LastSpace(item, Len(item)) IN IF k = 0 THEN "" ELSE SubSeq(item, 1, k - 1)

\* float(item.split(' ')[-1]), in hundredths
PredictionOf(item) ==
    ParseFloat(SubSeq(item, LastSpace(item, Len(item)) + 1, Len(item)))

\* the first loop: products_se / predictions_se of the labels with prediction >= 0.50
\* mutant: the confidence compared with > instead of >=
RECURSIVE FilteredStrict(_)
FilteredStrict(labels) ==
    IF labels = <<>> THEN <<>>
    ELSE LET item == Head(labels)
             rest == FilteredStrict(Tail(labels))
         IN  IF PredictionOf(item) > MinConfidence
             THEN <<[product |-> ProductOf(item), prediction |-> PredictionOf(item)]>> \o rest
             ELSE rest

RECURSIVE Filtered(_)
Filtered(labels) ==
    IF labels = <<>> THEN <<>>
    ELSE LET item == Head(labels)
             rest == Filtered(Tail(labels))
         IN  IF PredictionOf(item) >= MinConfidence
             THEN <<[product |-> ProductOf(item), prediction |-> PredictionOf(item)]>> \o rest
             ELSE rest

RECURSIVE findProductIndexFrom(_, _, _)
findProductIndexFrom(predictedProducts, productName, i) ==
    IF i > Len(predictedProducts) THEN 0
    ELSE IF predictedProducts[i].productName = productName THEN i
    ELSE findProductIndexFrom(predictedProducts, productName, i + 1)

findProductIndex(predictedProducts, productName) ==
    findProductIndexFrom(predictedProducts, productName, 1)

\* the second loop: one PredictedProducts per distinct name, in order of first sight
RECURSIVE Aggregate(_, _)
Aggregate(predUniqueCls, samples) ==
    IF samples = <<>> THEN predUniqueCls
    ELSE LET x == Head(samples)
             index == findProductIndex(predUniqueCls, x.product)
             next == IF index = 0
                     THEN Append(predUniqueCls, [productName |-> x.product, count |-> 1,
                                                 totalPred |-> x.prediction])
                     ELSE [predUniqueCls EXCEPT ![index].count = @ + 1,
                                                ![index].totalPred = @ + x.prediction]
         IN  Aggregate(next, Tail(samples))

\* the loop of findMaxTwoClass over i, with its four locals
RECURSIVE MaxTwoLoop(_, _, _)
MaxTwoLoop(predictedProducts, i, m) ==
    IF i > Len(predictedProducts) THEN m
    ELSE LET cnt == predictedProducts[i].count
             next == IF cnt > m.maxCount1
                     THEN [m EXCEPT !.maxCount1 = cnt, !.maxIndex1 = i]
                     ELSE IF cnt > m.maxCount2
                     THEN [m EXCEPT !.maxCount2 = cnt, !.maxIndex2 = i]
                     ELSE m
         IN  MaxTwoLoop(predictedProducts, i + 1, next)

\* mutant: the shortcut taken when the votes hold two samples in all
findMaxTwoClassOnSamples(predictedProducts) ==
    IF /\ Len(predictedProducts) = 2
       /\ predictedProducts[1].count + predictedProducts[2].count = 2
    THEN <<1, 2>>
    ELSE LET m == MaxTwoLoop(predictedProducts, 1,
                             [maxIndex1 |-> 1, maxIndex2 |-> 1, maxCount1 |-> 0, maxCount2 |-> 0])
         IN  <<m.maxIndex1, m.maxIndex2>>

findMaxTwoClass(predictedProducts) ==
    IF Len(predictedProducts) = 2 THEN <<1, 2>>
    ELSE LET m == MaxTwoLoop(predictedProducts, 1,
                             [maxIndex1 |-> 1, maxIndex2 |-> 1, maxCount1 |-> 0, maxCount2 |-> 0])
         IN  <<m.maxIndex1, m.maxIndex2>>

\* PredictedProducts.getPred() of a and b compared: max(pa, pb) == pa.  The means
\* totalPred / count are compared exactly, by cross-multiplication.
MeanAtLeast(a, b) == a.totalPred * b.count >= b.totalPred * a.count

\* the name each branch of productDetection settles on ("" when there is none)
Winner(predUniqueCls) ==
    IF Len(predUniqueCls) > 1
    THEN LET idx == findMaxTwoClass(predUniqueCls)
             p1 == predUniqueCls[idx[1]]
             p2 == predUniqueCls[idx[2]]
         IN  IF p1.count - p2.count > CountMargin THEN p1.productName
             ELSE IF MeanAtLeast(p1, p2) THEN p1.productName ELSE p2.productName
    ELSE IF Len(predUniqueCls) = 1 THEN predUniqueCls[1].productName
    ELSE ""

Votes(predictedLabels) == Aggregate(<<>>, Filtered(predictedLabels))

productDetection(predictedLabels) == Winner(Votes(predictedLabels))

\* a call productDetection(predictedLabels_se)
Resolve ==
    /\ maxName_se' = productDetection(predictedLabels_se)
    /\ UNCHANGED <<source, enter_coordinates, exit_coordinates, noObjectCount,
                   predictedLabels_se, threads, crossings, event,
                   emptyRun, emptySince>>

(***************************************************************************)
(* Inputs and specifications.                                              *)
(***************************************************************************)
Sources == {"0", "data/images"}
Xs == {0, 1, 3, 9}
Ys == {5}
FrameConfs == {90}
FrameClasses == {1}

Detections == [x : Xs, y : Ys, conf : FrameConfs, cls : FrameClasses]

FrameInputs == UNION {[1..n -> Detections] : n \in 0..MaxDet}

\* the bounds of a run: MaxLabels detections in all, MaxEmpty on the counter
WithinBounds(det) ==
    IF Len(det) = 0
    THEN noObjectCount < MaxEmpty
    ELSE Len(predictedLabels_se) + Len(det) <= MaxLabels

Init ==
    /\ source \in Sources
    /\ enter_coordinates = None
    /\ exit_coordinates = None
    /\ noObjectCount = 0
    /\ predictedLabels_se = <<>>
    /\ threads = <<>>
    /\ crossings = 0
    /\ event = "none"
    /\ maxName_se = ""
    /\ emptyRun = 0
    /\ emptySince = 0

\* the gap history is kept by SpecGaps only
NoGaps == UNCHANGED <<emptyRun, emptySince>>

FrameStep == \E det \in FrameInputs : WithinBounds(det) /\ Frame(det) /\ NoGaps

SendStep == \E i \in 1..Len(threads) : SendRequest(i)

ResponseStep == \E i \in 1..Len(threads) : \E outcome \in Outcomes : Response(i, outcome)

Next == FrameStep \/ SendStep \/ ResponseStep

Spec == Init /\ [][Next]_vars

\* frames that differ in the classes seen, for what a dispatch thread sends
NameXs == {1, 9}
NameClasses == {0, 1}

NameDetections == [x : NameXs, y : Ys, conf : FrameConfs, cls : NameClasses]

NameInputs == UNION {[1..n -> NameDetections] : n \in 0..MaxDet}

NameFrameStep == \E det \in NameInputs : WithinBounds(det) /\ Frame(det) /\ NoGaps

NextNames == NameFrameStep \/ SendStep \/ ResponseStep

SpecNames == Init /\ [][NextNames]_vars

\* the resolver applied to every buffer of at most MaxBuf labels
ResolverSamples == {<<0, 50>>, <<1, 40>>, <<1, 70>>, <<2, 70>>}
ResolverLabels == {Label(sample[1], sample[2]) : sample \in ResolverSamples}

Buffers == UNION {[1..n -> ResolverLabels] : n \in 0..MaxBuf}

InitResolver ==
    /\ source = "0"
    /\ enter_coordinates = None
    /\ exit_coordinates = None
    /\ noObjectCount = 0
    /\ predictedLabels_se \in Buffers
    /\ threads = <<>>
    /\ crossings = 0
    /\ event = "none"
    /\ maxName_se = ""
    /\ emptyRun = 0
    /\ emptySince = 0

NextResolver == Resolve

SpecResolver == InitResolver /\ [][NextResolver]_vars

(***************************************************************************)
(* Properties of the frame loop.                                           *)
(***************************************************************************)
\* the anchors after the detection loop of a frame, before the crossing test
AfterDetections(det) ==
    LET st0 == [enter |-> enter_coordinates, exit |-> exit_coordinates,
                count |-> noObjectCount]
    IN  IF Len(det) > 0 THEN DetLoop(st0, Reverse(det)) ELSE st0

\* the step is the frame step on det (the first conjunct follows from the
\* second and is tested first because it is cheap)
FrameTaken(det) ==
    /\ Len(predictedLabels_se') = Len(predictedLabels_se) + Len(det)
    /\ Frame(det)

Far(enter, exit) == enter # None /\ exit # None /\ Abs(exit[1] - enter[1]) >= 6

\* the frame loop with the history of its gaps: after a frame, emptyRun is the
\* number of frames without detections in a row that end with it, and
\* emptySince the number of frames without detections since the frame that last
\* set the enter anchor
Gaps(det) ==
    /\ emptyRun' = IF Len(det) > 0 THEN 0 ELSE emptyRun + 1
    /\ emptySince' = IF enter_coordinates = None /\ AfterDetections(det).enter # None THEN 0
                     ELSE IF Len(det) = 0 THEN emptySince + 1
                     ELSE emptySince

GapXs == {1, 9}

GapDetections == [x : GapXs, y : Ys, conf : FrameConfs, cls : FrameClasses]

GapInputs == UNION {[1..n -> GapDetections] : n \in 0..MaxDet}

GapFrameStep == \E det \in GapInputs : WithinBounds(det) /\ Frame(det) /\ Gaps(det)

NextGaps == GapFrameStep

SpecGaps == Init /\ [][NextGaps]_vars

\* C1: a crossing fires at the end of a frame exactly when, after the frame's
\* detections, both anchors are set and |exit.x - enter.x| >= 0.6; a crossing
\* clears both anchors; no frame ends with both anchors set and such a displacement.
C1_CrossingIffDisplacement ==
    [][\A det \in FrameInputs : FrameTaken(det) =>
          LET mid == AfterDetections(det)
              far == Far(mid.enter, mid.exit)
          IN  /\ (crossings' = crossings + 1) <=> far
              /\ (event' = "crossing") <=> far
              /\ far => enter_coordinates' = None /\ exit_coordinates' = None
              /\ ~Far(enter_coordinates', exit_coordinates')]_vars

C1_Witness ==
    /\ event = "crossing"
    /\ crossings = 1
    /\ enter_coordinates = None
    /\ exit_coordinates = None

\* C2: enter_coordinates is assigned only while it is unset, from a detection of
\* the frame whose centre x lies in [0.1, 0.9]; wherever it is set its x is in
\* that range.
C2_EnterOnlyInZone ==
    [][/\ enter_coordinates' # None => enter_coordinates'[1] \in 1..9
       /\ (enter_coordinates' # None /\ enter_coordinates' # enter_coordinates) =>
              /\ enter_coordinates = None
              /\ \E det \in FrameInputs :
                    /\ FrameTaken(det)
                    /\ \E i \in 1..Len(det) :
                          /\ <<det[i].x, det[i].y>> = enter_coordinates'
                          /\ det[i].x >= 1
                          /\ det[i].x <= 9]_vars

C2_Witness == enter_coordinates = <<1, 5>> /\ exit_coordinates = <<0, 5>>

\* C3: a frame without detections adds exactly 1 to noObjectCount unless the
\* debounce reset happens in it, and then the counter is 0; the counter never
\* decreases except to 0.
C3_EmptyFrameCounts ==
    [][/\ Frame(<<>>) =>
              noObjectCount' = IF noObjectCount + 1 >= 10 /\ enter_coordinates # None
                               THEN 0 ELSE noObjectCount + 1
       /\ noObjectCount' >= noObjectCount \/ noObjectCount' = 0]_vars

C3_Witness == noObjectCount = 9 /\ enter_coordinates # None /\ event = "none"

\* C4: an empty frame that brings the counter to 10 while enter_coordinates is
\* set leaves both anchors unset and the counter 0, fires no crossing and
\* spawns no thread.
C4_DebounceResetsSilently ==
    [][(Frame(<<>>) /\ noObjectCount + 1 >= 10 /\ enter_coordinates # None) =>
          /\ enter_coordinates' = None
          /\ exit_coordinates' = None
          /\ noObjectCount' = 0
          /\ crossings' = crossings
          /\ threads' = threads
          /\ event' = "debounce"]_vars

C4_Witness ==
    /\ event = "debounce"
    /\ enter_coordinates = None
    /\ exit_coordinates = None
    /\ noObjectCount = 0

\* C5: while an enter anchor is set, the frame in which the displacement reaches
\* 0.6 fires exactly one crossing and spawns exactly one thread, and a frame in
\* which it does not fires and spawns none; over a run the number of threads
\* spawned is the number of crossings fired.
C5_OneThreadPerCrossing ==
    /\ [](Len(threads) = crossings)
    /\ [][\A det \in FrameInputs : (FrameTaken(det) /\ enter_coordinates # None) =>
             LET mid == AfterDetections(det)
                 n == IF Far(mid.enter, mid.exit) THEN 1 ELSE 0
             IN  /\ crossings' = crossings + n
                 /\ Len(threads') = Len(threads) + n]_vars

C5_Witness == crossings = 2 /\ Len(threads) = 2 /\ event = "crossing"

Centre(d) == <<d.x, d.y>>

\* indices of the detections of a frame whose centre x is in [0.1, 0.9]
ZoneIndices(det) == {i \in 1..Len(det) : det[i].x >= 1 /\ det[i].x <= 9}

\* C12 as claimed: detections are processed in the order received, so after the
\* detection loop of a frame that starts with an enter anchor, exit_coordinates is
\* the centre of the last detection of the frame, and a frame that sets the enter
\* anchor takes it from the first in-zone detection of the frame.
C12_ReceivedOrder ==
    [][\A det \in FrameInputs : (FrameTaken(det) /\ Len(det) > 0) =>
          LET mid == AfterDetections(det)
              zone == ZoneIndices(det)
          IN  /\ enter_coordinates # None => mid.exit = Centre(det[Len(det)])
              /\ (enter_coordinates = None /\ zone # {}) =>
                     mid.enter = Centre(det[CHOOSE i \in zone : \A j \in zone : i <= j])]_vars

\* C12 as amended: detections are processed in the reverse of the order received:
\* after the detection loop of a frame that starts with an enter anchor,
\* exit_coordinates is the centre of the first detection of the frame, and a frame
\* that sets the enter anchor takes it from the last in-zone detection of the frame.
C12_ReversedOrder ==
    [][\A det \in FrameInputs : (FrameTaken(det) /\ Len(det) > 0) =>
          LET mid == AfterDetections(det)
              zone == ZoneIndices(det)
          IN  /\ enter_coordinates # None =>
                     /\ mid.exit = Centre(det[1])
                     /\ event' # "crossing" => exit_coordinates' = Centre(det[1])
              /\ (enter_coordinates = None /\ zone # {}) =>
                     /\ mid.enter = Centre(det[CHOOSE i \in zone : \A j \in zone : i >= j])
                     /\ event' # "crossing" => enter_coordinates' = mid.enter
              /\ (enter_coordinates = None /\ zone = {}) => mid.enter = None]_vars

\* a frame with the detections (0.1, 0.3) in received order, taken while Idle
C12_Witness ==
    /\ enter_coordinates = <<3, 5>>
    /\ exit_coordinates = <<1, 5>>
    /\ Len(predictedLabels_se) = 2
    /\ noObjectCount = 1

\* C13 as claimed: after a frame that fires a crossing both anchors are unset and
\* noObjectCount is 0, as after a debounce reset.
C13_CrossingResetsSession ==
    event = "crossing" =>
        /\ enter_coordinates = None
        /\ exit_coordinates = None
        /\ noObjectCount = 0

\* C13 as amended: a frame that fires a crossing leaves both anchors unset and
\* does not touch noObjectCount: the counter is 0 after it only because the frame
\* itself set the enter anchor, and otherwise keeps the value it had.
C13_CrossingClearsAnchors ==
    [][\A det \in FrameInputs : (FrameTaken(det) /\ event' = "crossing") =>
          /\ enter_coordinates' = None
          /\ exit_coordinates' = None
          /\ noObjectCount' = IF enter_coordinates = None THEN 0 ELSE noObjectCount]_vars

C13_Witness ==
    /\ event = "crossing"
    /\ enter_coordinates = None
    /\ exit_coordinates = None
    /\ noObjectCount = 3

\* C14 as claimed: a debounce reset happens at a frame only if that frame and the
\* 9 frames before it all had no detections.
C14_TenConsecutiveEmpty ==
    [][\A det \in GapInputs : (FrameTaken(det) /\ event' = "debounce") =>
          Len(det) = 0 /\ emptyRun' >= 10]_vars

\* C14 as amended: a debounce reset happens at a frame exactly when the frame has
\* no detections, an enter anchor is set and the frame is the 10th without
\* detections since that anchor was set; frames with detections in between do
\* not restart the count.
C14_TenEmptySinceEnter ==
    [][\A det \in GapInputs : FrameTaken(det) =>
          /\ event' = "debounce" <=>
                 (Len(det) = 0 /\ enter_coordinates # None /\ emptySince' = 10)
          /\ enter_coordinates' # None => emptySince' < 10]_vars

C14_Witness ==
    /\ event = "debounce"
    /\ emptySince = 10
    /\ emptyRun = 4
    /\ enter_coordinates = None

\* C15: exit_coordinates is assigned only while an enter anchor exists: in every
\* state, exit_coordinates set implies enter_coordinates set.
C15_ExitImpliesEnter == exit_coordinates # None => enter_coordinates # None

\* position, in processing order, of the detection that sets the enter anchor
\* of a frame taken without one (0 when no detection of the frame is in the zone)
RECURSIVE EnterRow(_, _)
EnterRow(rows, i) ==
    IF i > Len(rows) THEN 0
    ELSE IF InZone(rows[i].x) THEN i ELSE EnterRow(rows, i + 1)

\* C16: in every frame that fires a crossing, the exit anchor compared was
\* recorded from a detection processed after the enter anchor was set: a
\* detection of the frame itself, later in processing order than the one that
\* set the enter anchor when the frame sets it.
C16_ExitAfterEnter ==
    [][\A det \in FrameInputs : (FrameTaken(det) /\ event' = "crossing") =>
          LET rows == Reverse(det)
              k == IF enter_coordinates # None THEN 0 ELSE EnterRow(rows, 1)
          IN  /\ k < Len(rows)
              /\ AfterDetections(det).exit = Centre(rows[Len(rows)])]_vars

\* C20: a frame with detections puts noObjectCount to 0 when it sets the enter
\* anchor and leaves it unchanged otherwise, so while an enter anchor is set the
\* counter is the number of empty frames since it was set, whatever frames with
\* detections came in between.
C20_NonEmptyFrameAndCounter ==
    /\ [](enter_coordinates # None => noObjectCount = emptySince)
    /\ [][\A det \in GapInputs : (FrameTaken(det) /\ Len(det) > 0) =>
             noObjectCount' = IF enter_coordinates = None /\ ZoneIndices(det) # {}
                              THEN 0 ELSE noObjectCount]_vars

\* empty frames, a frame that only updates the exit anchor, then two empty frames
C20_Witness ==
    /\ enter_coordinates # None
    /\ exit_coordinates # None
    /\ noObjectCount = 5
    /\ emptyRun = 2
    /\ crossings = 0

\* C22: an enter anchor that is set keeps its value over every step until it is
\* cleared, and it is cleared only by a frame that fires a crossing or by the
\* debounce reset of an empty frame.
C22_EnterNeverOverwritten ==
    [][enter_coordinates # None =>
          /\ enter_coordinates' \in {enter_coordinates, None}
          /\ enter_coordinates' = None =>
                 \/ event' = "crossing" /\ crossings' = crossings + 1
                 \/ event' = "debounce" /\ Frame(<<>>)]_vars

\* detections in and out of the zone taken while tracking: the anchor has not moved
C22_Witness ==
    /\ enter_coordinates = <<1, 5>>
    /\ exit_coordinates = <<3, 5>>
    /\ Len(predictedLabels_se) = 4
    /\ noObjectCount = 2
    /\ crossings = 0

\* C23: after every frame, noObjectCount <= 9 while an enter anchor is set: the
\* counter is 0 when the anchor is set and the anchor is cleared by the empty
\* frame that would bring it to 10; without an anchor every empty frame adds 1
\* and nothing puts the counter back.
C23_TrackingCountBelowLimit ==
    /\ [](enter_coordinates # None => noObjectCount <= 9)
    /\ [][/\ (enter_coordinates = None /\ enter_coordinates' # None) => noObjectCount' = 0
          /\ (enter_coordinates = None /\ Frame(<<>>)) =>
                 /\ noObjectCount' = noObjectCount + 1
                 /\ enter_coordinates' = None
          /\ (enter_coordinates # None /\ noObjectCount = 9 /\ Frame(<<>>)) =>
                 enter_coordinates' = None /\ noObjectCount' = 0]_vars

\* eleven empty frames without an enter anchor
C23_Witness ==
    /\ enter_coordinates = None
    /\ noObjectCount = 11
    /\ event = "none"

\* C24 as claimed: a crossing never fires in the frame that set its enter anchor:
\* every frame that fires a crossing starts with the enter anchor already set.
C24_NoCrossingInEnterFrame ==
    [][crossings' = crossings + 1 => enter_coordinates # None]_vars

\* C24 as amended: a frame taken without an enter anchor fires a crossing exactly
\* when one of its detections sets the anchor and the exit anchor left by the
\* frame's loop is 0.6 or more from it: the last detection processed after the
\* one that set the anchor or, when there is none, the exit assigned last before.
C24_SameFrameCrossing ==
    [][\A det \in FrameInputs :
          (FrameTaken(det) /\ enter_coordinates = None /\ Len(det) > 0) =>
              LET rows == Reverse(det)
                  k == EnterRow(rows, 1)
                  exit == IF k < Len(rows) THEN Centre(rows[Len(rows)])
                          ELSE IF k > 1 THEN Centre(rows[k - 1])
                          ELSE exit_coordinates
              IN  (event' = "crossing") <=>
                      (k > 0 /\ exit # None /\ Abs(exit[1] - rows[k].x) >= 6)]_vars

\* the first frame with detections has two of them and fires a crossing
C24_Witness ==
    /\ event = "crossing"
    /\ crossings = 1
    /\ Len(predictedLabels_se) = 2
    /\ threads[1].s = "0: 384x512 2 Rexona Roll Ons, "

(***************************************************************************)
(* Properties of the dispatch threads.                                     *)
(***************************************************************************)
\* C6: every crossing is reported exactly once: its thread issues exactly one
\* POST, never none and never more than one.
C6_ReportedExactlyOnce ==
    \A i \in 1..Len(threads) :
        /\ Len(threads[i].posts) <= 1
        /\ threads[i].pc = "done" => Len(threads[i].posts) = 1

\* C7: the itemName sent for a crossing is the resolver's result on the labels
\* buffered up to that crossing (as resolved, or in its plural or normalised
\* form), not a name parsed from the frame's print string.
C7_ResolvedNameDispatched ==
    event = "crossing" =>
        LET t == threads[Len(threads)]
            resolved == productDetection(predictedLabels_se)
        IN  t.posts # <<>> =>
                t.posts[1].itemName \in
                    {resolved, resolved \o "s", remove_plural(resolved)}

\* C8: the itemName of a request is the plural-normalised item name: the last
\* character stripped for a name outside the allow-list, the name itself for an
\* allow-listed name that does not end in "ss".
C8_NormalizedNameSent ==
    \A i \in 1..Len(threads) :
        \A k \in 1..Len(threads[i].posts) :
            threads[i].posts[k].itemName = remove_plural(re_search(threads[i].s).group)

\* C10: a frame step never waits for a dispatch thread: it leaves every thread
\* that exists where it is, a thread it spawns has not run when the step ends,
\* and the next frame can be processed whatever the threads are doing.
C10_DispatchNeverBlocks ==
    /\ [](noObjectCount < MaxEmpty => ENABLED FrameStep)
    /\ [][(\E det \in FrameInputs : FrameTaken(det)) =>
             /\ Len(threads') >= Len(threads)
             /\ \A i \in 1..Len(threads) : threads'[i] = threads[i]
             /\ \A i \in (Len(threads) + 1)..Len(threads') : threads'[i].pc = "start"]_vars

C10_Witness ==
    /\ Len(threads) = 1
    /\ threads[1].pc = "start"
    /\ enter_coordinates # None
    /\ noObjectCount = 1

\* C11: whatever a dispatch thread ends with (status 200, another status, an
\* exception of requests.post, or no match), its steps leave enter_coordinates,
\* exit_coordinates, noObjectCount, the crossings fired and the label buffer
\* unchanged, and once threads have ended, however they ended, the next frame
\* can still be processed.
C11_OutcomesLeaveLoopAlone ==
    /\ []((\E i \in 1..Len(threads) : threads[i].pc = "done") =>
              (noObjectCount < MaxEmpty => ENABLED FrameStep))
    /\ [][(SendStep \/ ResponseStep) =>
             UNCHANGED <<enter_coordinates, exit_coordinates, noObjectCount,
                         crossings, predictedLabels_se, event>>]_vars

C11_Witness ==
    /\ Len(threads) = 1
    /\ threads[1].log = "exception"
    /\ enter_coordinates # None
    /\ exit_coordinates # None
    /\ noObjectCount = 2

\* threads started and not ended
InFlight(ths) == Cardinality({i \in 1..Len(ths) : ths[i].pc # "done"})

\* a frame of two detections, the second at x = 0.1, that fires a crossing
CrossingFrame ==
    \E d \in Detections :
        /\ Frame(<<d, [x |-> 1, y |-> 5, conf |-> 90, cls |-> 1]>>)
        /\ crossings' = crossings + 1

\* C21: nothing bounds the threads in flight and nothing merges their requests:
\* in every state with room for two more detections a frame that fires a
\* crossing can be taken, however many threads are in flight; a crossing adds
\* one to the threads in flight; and every thread that has sent has its own
\* request, also when another thread has sent the same itemName.
C21_InFlightUnbounded ==
    /\ [](Len(predictedLabels_se) + 2 <= MaxLabels => ENABLED CrossingFrame)
    /\ [](\A i \in 1..Len(threads) :
             (threads[i].pc # "start" /\ re_search(threads[i].s).found) =>
                 Len(threads[i].posts) = 1)
    /\ [][crossings' = crossings + 1 =>
             /\ InFlight(threads') = InFlight(threads) + 1
             /\ threads'[Len(threads')].pc = "start"]_vars

\* two crossings, both requests sent and none answered, for the same item name
C21_Witness ==
    /\ Len(threads) = 2
    /\ threads[1].pc = "posted"
    /\ threads[2].pc = "posted"
    /\ threads[1].posts = threads[2].posts
    /\ InFlight(threads) = 2

(***************************************************************************)
(* Properties of the resolver.                                             *)
(***************************************************************************)
\* C9: with at least two names left after filtering, the contender with the
\* higher count wins outright when it leads by more than 3; otherwise the higher
\* mean confidence wins, the first-compared contender on a tie; the buffer
\* [(A,0.6),(A,0.7),(B,0.4),(B,0.9)] resolves to B.
C9_ContenderRule ==
    LET votes == Votes(predictedLabels_se)
    IN  /\ (maxName_se # "" /\ Len(votes) >= 2) =>
              LET idx == findMaxTwoClass(votes)
                  a == votes[idx[1]]
                  b == votes[idx[2]]
                  hi == IF b.count > a.count THEN b ELSE a
                  lo == IF b.count > a.count THEN a ELSE b
              IN  maxName_se =
                      IF hi.count - lo.count > 3 THEN hi.productName
                      ELSE IF a.totalPred * b.count >= b.totalPred * a.count
                           THEN a.productName ELSE b.productName
        /\ productDetection(<<"A 0.60", "A 0.70", "B 0.40", "B 0.90">>) = "B"

\* what the loop of findMaxTwoClass leaves in its two indices
LoopIndices(votes) ==
    LET m == MaxTwoLoop(votes, 1,
                        [maxIndex1 |-> 1, maxIndex2 |-> 1, maxCount1 |-> 0, maxCount2 |-> 0])
    IN  <<m.maxIndex1, m.maxIndex2>>

\* the rule of lines 434-441 applied to the contenders a and b
Decide(a, b) ==
    IF a.count - b.count > 3 THEN a.productName
    ELSE IF a.totalPred * b.count >= b.totalPred * a.count THEN a.productName
    ELSE b.productName

\* names of the labels of a buffer with a confidence of 0.50 or more
KeptNames(labels) ==
    {ProductOf(labels[i]) : i \in {j \in 1..Len(labels) : PredictionOf(labels[j]) >= 50}}

\* number of labels of a buffer with a confidence of 0.50 or more
KeptCount(labels) == Cardinality({j \in 1..Len(labels) : PredictionOf(labels[j]) >= 50})

\* C17 as claimed: the first two names seen are taken as the contenders, whatever
\* their counts, exactly when the buffer holds two samples in all; with any other
\* number of samples the contenders are the ones the loop over the counts finds.
C17_ShortcutOnTwoSamples ==
    LET votes == Votes(predictedLabels_se)
        idx == IF KeptCount(predictedLabels_se) = 2 THEN <<1, 2>> ELSE LoopIndices(votes)
    IN  Len(votes) >= 2 =>
            /\ findMaxTwoClass(votes) = idx
            /\ maxName_se # "" => maxName_se = Decide(votes[idx[1]], votes[idx[2]])

\* C17 as amended: the first two names seen are taken as the contenders, whatever
\* their counts and the number of samples, exactly when two distinct names are
\* left after filtering; with three names or more the contenders are the ones
\* the loop over the counts finds.
C17_ShortcutOnTwoNames ==
    LET votes == Votes(predictedLabels_se)
        distinct == Cardinality(KeptNames(predictedLabels_se))
        idx == IF distinct = 2 THEN <<1, 2>> ELSE LoopIndices(votes)
    IN  /\ Len(votes) = distinct
        /\ distinct >= 2 =>
               /\ findMaxTwoClass(votes) = idx
               /\ maxName_se # "" => maxName_se = Decide(votes[idx[1]], votes[idx[2]])

\* five samples, two names: the second name has four of them and the first wins
C17_Witness ==
    /\ predictedLabels_se = <<Label(2, 70), Label(0, 50), Label(0, 50), Label(0, 50), Label(0, 50)>>
    /\ maxName_se = names[2]

\* first index, among the indices in among, of a vote with the highest count
TopIndex(votes, among) ==
    CHOOSE i \in among :
        /\ \A j \in among : votes[j].count <= votes[i].count
        /\ \A j \in among : votes[j].count = votes[i].count => i <= j

\* C18: for three or more votes, findMaxTwoClass returns the first vote with the
\* highest count and then the first vote with the highest count among the
\* others, and the two indices differ.
C18_TopTwoByCount ==
    LET votes == Votes(predictedLabels_se)
    IN  (maxName_se # "" /\ Len(votes) >= 3) =>
            LET idx == findMaxTwoClass(votes)
                top1 == TopIndex(votes, 1..Len(votes))
                top2 == TopIndex(votes, (1..Len(votes)) \ {top1})
            IN  /\ idx[1] = top1
                /\ idx[2] = top2
                /\ idx[1] # idx[2]

Kept(item) == PredictionOf(item) >= 50

\* positions of the labels of a buffer that carry the name and are kept
KeptOf(labels, name) ==
    {j \in 1..Len(labels) : ProductOf(labels[j]) = name /\ Kept(labels[j])}

RECURSIVE SumOver(_, _)
SumOver(labels, positions) ==
    IF positions = {} THEN 0
    ELSE LET j == CHOOSE k \in positions : TRUE
         IN  PredictionOf(labels[j]) + SumOver(labels, positions \ {j})

====
